---- MODULE Spec2Model ----
(***************************************************************************)
(* Model of web-app-starter: the Flask request handler of src/app.py and   *)
(* the Streamlit dashboard script of src/streamlit_app.py, both working on *)
(* the SQLite file data/database.db.                                       *)
(*                                                                         *)
(* Library behaviour the two files rely on, as the model takes it:         *)
(*  - sqlite3.connect(path) raises OperationalError ("unable to open       *)
(*    database file") when the directory of path does not exist, and       *)
(*    otherwise succeeds; when the file is absent it creates an empty      *)
(*    database file at path (open flags READWRITE | CREATE).               *)
(*  - pandas.read_sql_query raises DatabaseError when the table is absent, *)
(*    and otherwise builds a DataFrame whose columns get an inferred       *)
(*    dtype: a column of integers that also holds a NULL or a REAL is      *)
(*    stored as float64 (integers as floats, NULL as NaN).                 *)
(*  - flask.render_template may raise (template missing, template error).  *)
(***************************************************************************)
EXTENDS Integers, Sequences, FiniteSets, TLC

\* Number of inbound requests the host server dispatches to index().
NReq == 2
\* Largest number of rows of your_table.
MaxRows == 2

Requests == 1..NReq
\* The local conn of an invocation that has not bound it yet.
None == 0

\* ---------------------------------------------------------------- values
\* SQLite storage classes of a cell, and the float NaN pandas puts for a
\* missing number.
IntCell(n) == [k |-> "int", v |-> n]
RealCell(n) == [k |-> "real", v |-> n]
\* TEXT or BLOB: a value pandas keeps as a Python object.
TextCell(n) == [k |-> "text", v |-> n]
NullCell == [k |-> "null", v |-> 0]
NaNCell == [k |-> "nan", v |-> 0]

\* The columns of your_table ("SELECT *" returns all of them).
Cols == {"a"}
CellValues == {IntCell(1), RealCell(2), TextCell(3), NullCell}
Rows == [Cols -> CellValues]
Tables == UNION {[1..n -> Rows] : n \in 0..MaxRows}

\* The file system and database states the scripts can meet at
\* 'data/database.db': no data/ directory, no file, a database without
\* your_table, a database with your_table.
DbStates ==
    {[dir |-> FALSE, file |-> FALSE, hasTable |-> FALSE, rows |-> <<>>],
     [dir |-> TRUE, file |-> FALSE, hasTable |-> FALSE, rows |-> <<>>],
     [dir |-> TRUE, file |-> TRUE, hasTable |-> FALSE, rows |-> <<>>]}
    \cup {[dir |-> TRUE, file |-> TRUE, hasTable |-> TRUE, rows |-> t] : t \in Tables}

VARIABLES
    db,        \* data/database.db as it is on disk
    db0,       \* history: db before any component ran
    pc,        \* pc[r]: position of invocation r of index()
    conn,      \* conn[r]: the local variable conn of invocation r (None: unbound)
    conns,     \* the web process's sqlite3.Connection objects, by identity
    view,      \* view[r]: the view invocation r returned ("": nothing)
    err,       \* err[r]: the exception invocation r raised ("": none)
    attempts,  \* attempts[u]: calls of sqlite3.connect by unit u (0 is the dashboard)
    queried,   \* the units that executed a query (0 is the dashboard)
    dpc,       \* position of the dashboard script
    dconn,     \* the dashboard's local conn: "none", "open", "closed"
    derr,      \* the exception that ended the dashboard script ("": none)
    df,        \* the data frame get_data() returned (<<>> before)
    display    \* what the dashboard emitted to the Streamlit display surface

vars == <<db, db0, pc, conn, conns, view, err, attempts, queried,
          dpc, dconn, derr, df, display>>

webVars == <<pc, conn, conns, view, err>>
dashVars == <<dpc, dconn, derr, df, display>>

\* The dashboard script as a unit, beside the invocations 1..NReq.
Dash == 0

Init ==
    /\ db \in DbStates
    /\ db0 = db
    /\ pc = [r \in Requests |-> "idle"]
    /\ conn = [r \in Requests |-> None]
    /\ conns = <<>>
    /\ view = [r \in Requests |-> ""]
    /\ err = [r \in Requests |-> ""]
    /\ attempts = [u \in Requests \cup {Dash} |-> 0]
    /\ queried = {}
    /\ dpc = "title"
    /\ dconn = "none"
    /\ derr = ""
    /\ df = <<>>
    /\ display = <<>>

\* ------------------------------------------------------------ sqlite3
\* sqlite3.connect('data/database.db') succeeds iff the directory exists.
CanConnect(d) == d.dir

\* The file after a successful connect: created empty when it was absent.
Connected(d) == [d EXCEPT !.file = TRUE]

\* -------------------------------------------------------------- app.py
\* A request for '/' arrives and the host server calls index().
Dispatch(r) ==
    /\ pc[r] = "idle"
    /\ pc' = [pc EXCEPT ![r] = "connect"]
    /\ UNCHANGED <<db, db0, conn, conns, view, err, attempts, queried>>
    /\ UNCHANGED dashVars

\* A module-level connection shared by all invocations instead of one per call.
get_db_connection_shared(r) ==
    /\ pc[r] = "connect"
    /\ attempts' = [attempts EXCEPT ![r] = @ + 1]
    /\ IF CanConnect(db)
       THEN /\ db' = Connected(db)
            /\ IF conns = <<>>
               THEN conns' = <<[owner |-> r, open |-> TRUE,
                                closer |-> None, row_factory |-> "Row"]>>
               ELSE conns' = conns
            /\ conn' = [conn EXCEPT ![r] = 1]
            /\ pc' = [pc EXCEPT ![r] = "close"]
            /\ err' = err
       ELSE /\ err' = [err EXCEPT ![r] = "connection-error"]
            /\ pc' = [pc EXCEPT ![r] = "failed"]
            /\ UNCHANGED <<db, conn, conns>>
    /\ UNCHANGED <<db0, view, queried>>
    /\ UNCHANGED dashVars

\* A handler that catches the connection error and answers with the view anyway.
get_db_connection_fallback(r) ==
    /\ pc[r] = "connect"
    /\ attempts' = [attempts EXCEPT ![r] = @ + 1]
    /\ IF CanConnect(db)
       THEN /\ db' = Connected(db)
            /\ conns' = Append(conns, [owner |-> r, open |-> TRUE,
                                        closer |-> None, row_factory |-> "Row"])
            /\ conn' = [conn EXCEPT ![r] = Len(conns) + 1]
            /\ pc' = [pc EXCEPT ![r] = "close"]
            /\ view' = view
       ELSE /\ view' = [view EXCEPT ![r] = "index.html"]
            /\ pc' = [pc EXCEPT ![r] = "returned"]
            /\ UNCHANGED <<db, conn, conns>>
    /\ UNCHANGED <<db0, err, queried>>
    /\ UNCHANGED dashVars

\* index(), line 13, with get_db_connection(), lines 6-9: a new connection
\* object on every call, bound to the invocation's local conn.
get_db_connection(r) ==
    /\ pc[r] = "connect"
    /\ attempts' = [attempts EXCEPT ![r] = @ + 1]
    /\ IF CanConnect(db)
       THEN /\ db' = Connected(db)
            /\ conns' = Append(conns, [owner |-> r, open |-> TRUE,
                                        closer |-> None, row_factory |-> "Row"])
            /\ conn' = [conn EXCEPT ![r] = Len(conns) + 1]
            /\ pc' = [pc EXCEPT ![r] = "close"]
            /\ err' = err
       ELSE /\ err' = [err EXCEPT ![r] = "connection-error"]
            /\ pc' = [pc EXCEPT ![r] = "failed"]
            /\ UNCHANGED <<db, conn, conns>>
    /\ UNCHANGED <<db0, view, queried>>
    /\ UNCHANGED dashVars

\* conn.close() left out of index().
index_close_missing(r) ==
    /\ pc[r] = "close"
    /\ pc' = [pc EXCEPT ![r] = "render"]
    /\ UNCHANGED <<db, db0, conn, conns, view, err, attempts, queried>>
    /\ UNCHANGED dashVars

\* The placeholder of index() filled in with a query on the connection.
index_close_query(r) ==
    /\ pc[r] = "close"
    /\ queried' = queried \cup {r}
    /\ conns' = [conns EXCEPT ![conn[r]] = [@ EXCEPT !.open = FALSE, !.closer = r]]
    /\ pc' = [pc EXCEPT ![r] = "render"]
    /\ UNCHANGED <<db, db0, conn, view, err, attempts>>
    /\ UNCHANGED dashVars

\* index(), lines 14-16: the placeholder comment, then conn.close().
index_close(r) ==
    /\ pc[r] = "close"
    /\ conns' = [conns EXCEPT ![conn[r]] = [@ EXCEPT !.open = FALSE, !.closer = r]]
    /\ pc' = [pc EXCEPT ![r] = "render"]
    /\ UNCHANGED <<db, db0, conn, view, err, attempts, queried>>
    /\ UNCHANGED dashVars

\* index(), line 17: return render_template('index.html'); rendering may raise.
index_render(r) ==
    /\ pc[r] = "render"
    /\ \E ok \in BOOLEAN :
         IF ok
         THEN /\ view' = [view EXCEPT ![r] = "index.html"]
              /\ pc' = [pc EXCEPT ![r] = "returned"]
              /\ err' = err
         ELSE /\ err' = [err EXCEPT ![r] = "template-error"]
              /\ pc' = [pc EXCEPT ![r] = "failed"]
              /\ view' = view
    /\ UNCHANGED <<db, db0, conn, conns, attempts, queried>>
    /\ UNCHANGED dashVars

\* One step of invocation r of index().
index(r) ==
    \/ get_db_connection(r)
    \/ index_close(r)
    \/ index_render(r)

\* ----------------------------------------------------- streamlit_app.py
\* Line 5: st.title("My Streamlit App").
st_title ==
    /\ dpc = "title"
    /\ display' = Append(display, [type |-> "title", body |-> "My Streamlit App"])
    /\ dpc' = "connect"
    /\ UNCHANGED <<db, db0, attempts, queried, dconn, derr, df>>
    /\ UNCHANGED webVars

\* get_data(), line 8: conn = sqlite3.connect('data/database.db').
get_data_connect ==
    /\ dpc = "connect"
    /\ attempts' = [attempts EXCEPT ![Dash] = @ + 1]
    /\ IF CanConnect(db)
       THEN /\ db' = Connected(db)
            /\ dconn' = "open"
            /\ dpc' = "query"
            /\ derr' = derr
       ELSE /\ derr' = "connection-error"
            /\ dpc' = "failed"
            /\ UNCHANGED <<db, dconn>>
    /\ UNCHANGED <<db0, queried, df, display>>
    /\ UNCHANGED webVars

\* The dtype pandas infers for column c of the fetched rows.
Dtype(rows, c) ==
    LET kinds == {rows[i][c].k : i \in 1..Len(rows)}
    IN  IF "text" \in kinds THEN "object"
        ELSE IF kinds \subseteq {"null"} THEN "object"
        ELSE IF "null" \in kinds \/ "real" \in kinds THEN "float64"
        ELSE "int64"

\* A cell as a column of dtype dt holds it.
AsDtype(cell, dt) ==
    IF dt = "float64"
    THEN IF cell.k = "int" THEN RealCell(cell.v)
         ELSE IF cell.k = "null" THEN NaNCell
         ELSE cell
    ELSE cell

\* Rows delivered last first instead of in fetch order.
read_sql_query_reversed(rows) ==
    [i \in 1..Len(rows) |->
        [c \in Cols |-> AsDtype(rows[Len(rows) + 1 - i][c], Dtype(rows, c))]]

\* pd.read_sql_query("SELECT * FROM your_table", conn) on a table with these
\* rows: one frame row per fetched row, in fetch order, each column coerced
\* to its inferred dtype.
read_sql_query(rows) ==
    [i \in 1..Len(rows) |-> [c \in Cols |-> AsDtype(rows[i][c], Dtype(rows, c))]]

\* A load that catches the query error and goes on with an empty frame.
get_data_query_fallback ==
    /\ dpc = "query"
    /\ queried' = queried \cup {Dash}
    /\ df' = IF db.hasTable THEN read_sql_query(db.rows) ELSE <<>>
    /\ dpc' = "close"
    /\ UNCHANGED <<db, db0, attempts, dconn, derr, display>>
    /\ UNCHANGED webVars

\* get_data(), line 10: df = pd.read_sql_query("SELECT * FROM your_table", conn).
\* With the table absent the call raises and get_data() is left at once.
get_data_query ==
    /\ dpc = "query"
    /\ queried' = queried \cup {Dash}
    /\ IF db.hasTable
       THEN /\ df' = read_sql_query(db.rows)
            /\ dpc' = "close"
            /\ derr' = derr
       ELSE /\ derr' = "query-error"
            /\ dpc' = "failed"
            /\ df' = df
    /\ UNCHANGED <<db, db0, attempts, dconn, display>>
    /\ UNCHANGED webVars

\* return df placed before conn.close().
get_data_close_skipped ==
    /\ dpc = "close"
    /\ dpc' = "display"
    /\ UNCHANGED <<db, db0, attempts, queried, dconn, derr, df, display>>
    /\ UNCHANGED webVars

\* get_data(), lines 11-12 and line 14: conn.close(); return df; df = get_data().
get_data_close ==
    /\ dpc = "close"
    /\ dconn' = "closed"
    /\ dpc' = "display"
    /\ UNCHANGED <<db, db0, attempts, queried, derr, df, display>>
    /\ UNCHANGED webVars

\* Line 15: st.dataframe(df).
st_dataframe ==
    /\ dpc = "display"
    /\ display' = Append(display, [type |-> "dataframe", body |-> df])
    /\ dpc' = "done"
    /\ UNCHANGED <<db, db0, attempts, queried, dconn, derr, df>>
    /\ UNCHANGED webVars

Next ==
    \/ \E r \in Requests : Dispatch(r)
    \/ \E r \in Requests : get_db_connection(r)
    \/ \E r \in Requests : index_close(r)
    \/ \E r \in Requests : index_render(r)
    \/ st_title
    \/ get_data_connect
    \/ get_data_query
    \/ get_data_close
    \/ st_dataframe

Spec == Init /\ [][Next]_vars

\* ---------------------------------------------------------------- claims
InFlight == {r \in Requests : pc[r] \in {"connect", "close", "render"}}
Ended == {r \in Requests : pc[r] \in {"returned", "failed"}}
OpenConns == {c \in 1..Len(conns) : conns[c].open}
DashEnded == dpc \in {"done", "failed"}
Displayed(type) == {i \in 1..Len(display) : display[i].type = type}

\* C1: when an invocation of index() has ended, by returning the view, by
\* failing to open the database or by failing to render the template, every
\* connection it opened is closed.
IndexClosesItsConnection ==
    \A r \in Ended :
        /\ \A c \in 1..Len(conns) : conns[c].owner = r => ~conns[c].open
        /\ conn[r] # None => ~conns[conn[r]].open

\* C1 witness: an invocation opened a connection and then failed in rendering.
IndexFailedInRender ==
    \E r \in Requests :
        pc[r] = "failed" /\ err[r] = "template-error" /\ conn[r] # None

\* C2: once get_data() has been left, by returning or by raising, after it
\* opened its connection, that connection is closed.
GetDataReleasesConnection ==
    (dpc \in {"display", "done", "failed"} /\ dconn # "none") => dconn = "closed"

\* C3 as claimed: the frame a successful get_data() returns is exactly the
\* stored row sequence, and the frame displayed is that frame.
GetDataReturnsExactRows ==
    /\ dpc \in {"close", "display", "done"} => df = db.rows
    /\ dpc = "done" => display[Len(display)].body = df

\* A column pandas stores as floats: its values other than NULL are all
\* numbers, there is at least one, and it holds a NULL or a REAL.
FloatColumn(c) ==
    LET cells == {db.rows[i][c] : i \in 1..Len(db.rows)}
    IN  /\ \A x \in cells : x.k # "text"
        /\ \E x \in cells : x.k \in {"int", "real"}
        /\ \E x \in cells : x.k \in {"null", "real"}

\* C3 amended: the frame a successful get_data() returns has one row per
\* stored row, in the stored order; each cell is the stored cell, except that
\* in a float column an integer is delivered as the float of the same value
\* and a NULL as NaN; the frame displayed is that frame.
GetDataReturnsRowsUpToDtype ==
    /\ dpc \in {"close", "display", "done"} =>
         /\ Len(df) = Len(db.rows)
         /\ \A i \in 1..Len(db.rows) : \A c \in Cols :
              LET stored == db.rows[i][c]
                  got == df[i][c]
              IN  IF FloatColumn(c) /\ stored.k = "int"
                  THEN got.k = "real" /\ got.v = stored.v
                  ELSE IF FloatColumn(c) /\ stored.k = "null"
                  THEN got.k = "nan"
                  ELSE got = stored
    /\ dpc = "done" =>
         /\ Displayed("dataframe") = {Len(display)}
         /\ display[Len(display)].body = df

\* C3 witness: a table of two different rows, one of them coerced, was loaded
\* and displayed.
TwoRowsLoadedAndCoerced ==
    /\ dpc = "done"
    /\ Len(db.rows) = MaxRows
    /\ db.rows[1] # db.rows[Len(db.rows)]
    /\ df # db.rows

\* C4: with no database file at data/database.db before the run, an ended
\* invocation of index() has failed with a connection-error and returned no
\* view, and an ended dashboard run has failed with a connection-error having
\* displayed nothing, issued no query and created nothing on disk.
MissingFileFailsCleanly ==
    ~db0.file =>
        /\ \A r \in Ended :
             pc[r] = "failed" /\ err[r] = "connection-error" /\ view[r] = ""
        /\ DashEnded =>
             /\ dpc = "failed" /\ derr = "connection-error"
             /\ display = <<>>
             /\ Dash \notin queried
             /\ db = db0

\* C5 as claimed: a dashboard run against a database that opens but has no
\* table your_table ends in a query-error with nothing emitted to the display.
MissingTableNoOutput ==
    (db.dir /\ ~db.hasTable /\ DashEnded) =>
        /\ dpc = "failed" /\ derr = "query-error"
        /\ display = <<>>

\* C5 amended: a dashboard run against a database that opens but has no table
\* your_table ends in a query-error with no data frame displayed; the title
\* emitted before the load is the only output.
MissingTableTitleOnly ==
    (db.dir /\ ~db.hasTable /\ DashEnded) =>
        /\ dpc = "failed" /\ derr = "query-error"
        /\ Displayed("dataframe") = {}
        /\ display = <<[type |-> "title", body |-> "My Streamlit App"]>>

\* C5 witness: the dashboard failed in its query on a database without the table.
DashFailedInQuery ==
    db.dir /\ ~db.hasTable /\ dpc = "failed" /\ derr = "query-error"

\* C6: under every interleaving of invocations of index(), a connection is
\* bound and closed only by the invocation that opened it, no two invocations
\* hold the same connection, the open connections are never more than the
\* invocations in flight, and none is open once every invocation has ended.
IndexConnectionsIndependent ==
    /\ \A c \in 1..Len(conns) : conns[c].closer \in {None, conns[c].owner}
    /\ \A r \in Requests : conn[r] # None => conns[conn[r]].owner = r
    /\ \A r1, r2 \in Requests :
         (r1 # r2 /\ conn[r1] # None) => conn[r1] # conn[r2]
    /\ Cardinality(OpenConns) <= Cardinality(InFlight)
    /\ Ended = Requests => OpenConns = {}

\* C6 witness: two invocations in flight at once, each holding an open connection.
TwoConnectionsOpen ==
    \E r1, r2 \in Requests :
        /\ r1 # r2
        /\ pc[r1] = "close" /\ pc[r2] = "close"
        /\ conns[conn[r1]].open /\ conns[conn[r2]].open

\* C7: index() never executes a query, and whenever it returns, whatever the
\* database holds, it returns the view 'index.html'.
IndexIssuesNoQuery ==
    \A r \in Requests :
        /\ r \notin queried
        /\ pc[r] = "returned" => view[r] = "index.html"
        /\ view[r] \in {"", "index.html"}

\* C7 witness: index() returned its view on a database whose table holds rows.
IndexReturnedOnFilledTable ==
    \E r \in Requests :
        pc[r] = "returned" /\ conn[r] # None /\ db.hasTable /\ db.rows # <<>>

\* C8: the database on disk (the file, its tables and their rows) is what it
\* was before any invocation or dashboard run.
DatabaseUnchanged == db = db0

\* C9: a connection-error or query-error is not caught: the unit that met it
\* has failed with that error, after a single connect, with no view returned
\* and no data frame displayed; a failed unit takes no further step, and an
\* invocation in flight can always take its next step whatever failed before.
ErrorsSurfaceState ==
    /\ \A r \in Requests :
         /\ (attempts[r] > 0 /\ ~db.dir) =>
              pc[r] = "failed" /\ err[r] = "connection-error"
         /\ pc[r] = "failed" => view[r] = "" /\ attempts[r] = 1 /\ err[r] # ""
         /\ r \in InFlight => ENABLED index(r)
    /\ (attempts[Dash] > 0 /\ ~db.dir) =>
         dpc = "failed" /\ derr = "connection-error"
    /\ (Dash \in queried /\ ~db.hasTable) =>
         dpc = "failed" /\ derr = "query-error"
    /\ dpc = "failed" =>
         /\ derr \in {"connection-error", "query-error"}
         /\ attempts[Dash] = 1
         /\ Displayed("dataframe") = {}

ErrorsSurfaceStep ==
    /\ \A r \in Requests :
         pc[r] = "failed" =>
             /\ pc'[r] = "failed" /\ view'[r] = view[r]
             /\ attempts'[r] = attempts[r] /\ err'[r] = err[r]
    /\ dpc = "failed" => UNCHANGED <<dashVars, attempts[Dash]>>
    /\ \A r1, r2 \in Requests :
         (r1 # r2 /\ pc[r1] # "failed" /\ pc'[r1] = "failed") => pc'[r2] = pc[r2]

ErrorsSurface == []ErrorsSurfaceState /\ [][ErrorsSurfaceStep]_vars

\* C9 witness: an invocation failed, another one returned its view, and the
\* dashboard run has failed.
FailedAndReturned ==
    \E r1, r2 \in Requests :
        pc[r1] = "failed" /\ pc[r2] = "returned" /\ dpc = "failed"

====
